---- MODULE Spec2Model ----
(***************************************************************************)
(* A model of memory_set::MemorySet and memory_set::MemoryArea             *)
(* (src/memory_set/src/set.rs, src/memory_set/src/area.rs) driven against  *)
(* a mock MappingBackend whose calls may report failure.                   *)
(*                                                                         *)
(* Addresses are usize values; every address an operation is called with   *)
(* is a multiple of PAGE_SIZE_4K below (MaxPage + 1) pages.  The page      *)
(* table is the set of page addresses that are currently mapped.           *)
(* An area carries the keys of its frame table; the table stays empty in   *)
(* the build with the default features, where the backend's map returns no *)
(* frames, and is filled in the build with the RAII feature.               *)
(***************************************************************************)
EXTENDS Integers, Sequences, FiniteSets, TLC

\* ------------------------------------------------------------------ bounds
\* Number of pages of the address space the operations are called on.
MaxPage == 4
\* Number of distinct flag values.
NumFlags == 2
\* The backend calls of one operation that may report failure (by position).
MaxCalls == 2
\* The number of operations of a run.
MaxOps == 4
\* The number of operations of a run of the RAII build.
MaxOpsRAII == 3
\* Width of usize in the model (TLC integers are 32 bit).
UsizeBits == 20

\* ------------------------------------------------------- program constants
PAGE_SIZE_4K == 4096

UsizeMax == 2^UsizeBits - 1
Addrs == {p * PAGE_SIZE_4K : p \in 0..MaxPage}
Flags == 1..NumFlags
None == 0

\* Result codes: Ok, the three MappingError kinds, and a panic (failed
\* assert!/unwrap()/expect), after which the program does not continue.
Results == {"Ok", "InvalidParam", "AlreadyExists", "BadState", "Panic"}

VARIABLES
    areas,   \* MemorySet.areas: BTreeMap key -> [start, end, flags]
    pt,      \* the page table: set of mapped page addresses
    op,      \* the last public operation and its arguments
    ret,     \* its result
    val,     \* what a query returned, as a set of records: {} for None,
             \* {area} for find, {[addr |-> x]} for find_free_area and
             \* {[overlaps |-> b]} for overlaps
    calls,   \* the backend calls it made, in order
    pre,     \* MemorySet.areas before it
    prePt,   \* the page table before it
    nops     \* the number of operations of the run so far

vars == <<areas, pt, op, ret, val, calls, pre, prePt, nops>>

\* ------------------------------------------------- address arithmetic
Min(S) == CHOOSE x \in S : \A y \in S : x <= y
Max(S) == CHOOSE x \in S : \A y \in S : y <= x

is_aligned_4k(a) == a % PAGE_SIZE_4K = 0
\* checked_add: None (here -1) on overflow of usize.
checked_add(a, n) == IF a + n > UsizeMax THEN -1 ELSE a + n
wrapping_add(a, n) == (a + n) % (UsizeMax + 1)
wrapping_sub(a, n) == (a - n + (UsizeMax + 1)) % (UsizeMax + 1)
\* sub_addr: the offset a - b; it does not exist when b > a (the callers'
\* assertions on the size reject a negative value, which is a panic too).
sub_addr(a, b) == a - b

\* ---------------------------------------------------------- AddrRange
Range(s, e) == [start |-> s, end |-> e]
va_range(a) == Range(a.start, a.end)
range_is_empty(r) == r.start >= r.end
range_contains(r, addr) == r.start <= addr /\ addr < r.end
range_overlaps(r, o) == r.start < o.end /\ o.start < r.end
contained_in(r, o) == r.start >= o.start /\ r.end <= o.end
size(a) == a.end - a.start

\* ------------------------------------------------------------ BTreeMap
Remove(m, k) == [x \in DOMAIN m \ {k} |-> m[x]]
Put(m, k, v) == [x \in DOMAIN m \cup {k} |-> IF x = k THEN v ELSE m[x]]
EmptyMap == [x \in {} |-> 0]
\* range(..k).last(), range(..=k).last(), range(k..).next(): a key or -1
LastBelow(m, k) ==
    LET S == {x \in DOMAIN m : x < k} IN IF S = {} THEN -1 ELSE Max(S)
LastAtOrBelow(m, k) ==
    LET S == {x \in DOMAIN m : x <= k} IN IF S = {} THEN -1 ELSE Max(S)
FirstAtOrAbove(m, k) ==
    LET S == {x \in DOMAIN m : x >= k} IN IF S = {} THEN -1 ELSE Min(S)

\* -------------------------------------------------------- MappingBackend
\* A context is [areas, pt, calls, ret]; ret = "Run" while the operation
\* is still executing.  The n-th backend call of an operation reports
\* failure iff n \in fails; a failed call leaves the page table alone.
\* c.grant tells which frames a successful map returns (RAII build): a frame
\* for every page of the sub-range or none; c.got holds the keys returned
\* by the last map call.
PagesOf(start, sz) == {p \in Addrs : start <= p /\ p < start + sz}
CallOk(c, fails) == (Len(c.calls) + 1) \notin fails
Call(kind, start, sz, flags, ok) ==
    [kind |-> kind, start |-> start, size |-> sz, flags |-> flags, ok |-> ok]

Grants == {"none", "all"}
backend_map(c, start, sz, flags, fails) ==
    LET ok == CallOk(c, fails) IN
    [c EXCEPT !.pt = IF ok THEN @ \cup PagesOf(start, sz) ELSE @,
              !.got = IF ok /\ c.grant = "all" THEN PagesOf(start, sz) ELSE {},
              !.calls = Append(@, Call("map", start, sz, flags, ok))]

backend_unmap(c, start, sz, fails) ==
    LET ok == CallOk(c, fails) IN
    [c EXCEPT !.pt = IF ok THEN @ \ PagesOf(start, sz) ELSE @,
              !.calls = Append(@, Call("unmap", start, sz, None, ok))]

backend_protect(c, start, sz, flags, fails) ==
    LET ok == CallOk(c, fails) IN
    [c EXCEPT !.calls = Append(@, Call("protect", start, sz, flags, ok))]

LastCallOk(c) == c.calls[Len(c.calls)].ok

\* ------------------------------------------------------------ MemoryArea
\* The area-level operations act on the area stored in an extra field
\* c.area of the context and set c.ret to "Run" (Ok, go on) or to a result
\* that ends the operation.
Area(s, e, f) == [start |-> s, end |-> e, flags |-> f, frames |-> {}]

retain_frames_in_range(a) ==
    [a EXCEPT !.frames = {k \in @ : range_contains(va_range(a), k)}]

map_area(c, flags, fails) ==
    LET flag == IF flags = None THEN c.area.flags ELSE flags
        b == backend_map(c, c.area.start, size(c.area), flag, fails)
    IN  IF LastCallOk(b)
        THEN [b EXCEPT !.area.frames = @ \cup b.got]
        ELSE [b EXCEPT !.ret = "BadState"]

unmap_area(c, fails) ==
    LET b == backend_unmap(c, c.area.start, size(c.area), fails) IN
    IF LastCallOk(b)
    THEN [b EXCEPT !.area.frames = {}]
    ELSE [b EXCEPT !.ret = "BadState"]

protect_area(c, new_flags, fails) ==
    backend_protect(c, c.area.start, size(c.area), new_flags, fails)

\* A variant of shrink_left that moves the start before it asks the backend.
shrink_left_moves_first(c, new_size, fails) ==
    IF ~(new_size > 0 /\ new_size < size(c.area))
    THEN [c EXCEPT !.ret = "Panic"]
    ELSE LET unmap_size == size(c.area) - new_size
             b == backend_unmap(c, c.area.start, unmap_size, fails)
             m == [b EXCEPT !.area = retain_frames_in_range(
                                [@ EXCEPT !.start = wrapping_add(@, unmap_size)])]
         IN  IF ~LastCallOk(b) THEN [m EXCEPT !.ret = "BadState"] ELSE m

shrink_left(c, new_size, fails) ==
    IF ~(new_size > 0 /\ new_size < size(c.area))
    THEN [c EXCEPT !.ret = "Panic"]
    ELSE LET unmap_size == size(c.area) - new_size
             b == backend_unmap(c, c.area.start, unmap_size, fails)
         IN  IF ~LastCallOk(b)
             THEN [b EXCEPT !.ret = "BadState"]
             ELSE [b EXCEPT !.area = retain_frames_in_range(
                                [@ EXCEPT !.start = wrapping_add(@, unmap_size)])]

\* A variant of shrink_right that does not call retain_frames_in_range.
shrink_right_no_retain(c, new_size, fails) ==
    IF ~(new_size > 0 /\ new_size < size(c.area))
    THEN [c EXCEPT !.ret = "Panic"]
    ELSE LET unmap_size == size(c.area) - new_size
             unmap_start == wrapping_add(c.area.start, new_size)
             b == backend_unmap(c, unmap_start, unmap_size, fails)
         IN  IF ~LastCallOk(b)
             THEN [b EXCEPT !.ret = "BadState"]
             ELSE [b EXCEPT !.area.end = wrapping_sub(@, unmap_size)]

shrink_right(c, new_size, fails) ==
    IF ~(new_size > 0 /\ new_size < size(c.area))
    THEN [c EXCEPT !.ret = "Panic"]
    ELSE LET unmap_size == size(c.area) - new_size
             unmap_start == wrapping_add(c.area.start, new_size)
             b == backend_unmap(c, unmap_start, unmap_size, fails)
         IN  IF ~LastCallOk(b)
             THEN [b EXCEPT !.ret = "BadState"]
             ELSE [b EXCEPT !.area = retain_frames_in_range(
                                [@ EXCEPT !.end = wrapping_sub(@, unmap_size)])]

\* A variant of extend_left that maps new_size bytes instead of the added
\* ones.
extend_left_maps_new_size(c, new_size, fails) ==
    IF ~(new_size > 0 /\ new_size > size(c.area))
    THEN [c EXCEPT !.ret = "Panic"]
    ELSE LET map_size == new_size - size(c.area)
             map_start == wrapping_sub(c.area.start, map_size)
             b == backend_map(c, map_start, new_size, c.area.flags, fails)
         IN  IF ~LastCallOk(b)
             THEN [b EXCEPT !.ret = "BadState"]
             ELSE [b EXCEPT !.area.frames = @ \cup b.got, !.area.start = map_start]

extend_left(c, new_size, fails) ==
    IF ~(new_size > 0 /\ new_size > size(c.area))
    THEN [c EXCEPT !.ret = "Panic"]
    ELSE LET map_size == new_size - size(c.area)
             map_start == wrapping_sub(c.area.start, map_size)
             b == backend_map(c, map_start, map_size, c.area.flags, fails)
         IN  IF ~LastCallOk(b)
             THEN [b EXCEPT !.ret = "BadState"]
             ELSE [b EXCEPT !.area.frames = @ \cup b.got, !.area.start = map_start]

extend_right(c, new_size, fails) ==
    IF ~(new_size > 0 /\ new_size > size(c.area))
    THEN [c EXCEPT !.ret = "Panic"]
    ELSE LET map_size == new_size - size(c.area)
             map_start == wrapping_add(c.area.start, size(c.area))
             b == backend_map(c, map_start, map_size, c.area.flags, fails)
         IN  IF ~LastCallOk(b)
             THEN [b EXCEPT !.ret = "BadState"]
             ELSE [b EXCEPT !.area.frames = @ \cup b.got,
                            !.area.end = wrapping_add(@, map_size)]

\* A variant of split that leaves the whole frame table in the left part.
split_no_split_off(a, pos) ==
    IF a.start < pos /\ pos < a.end
    THEN <<[a EXCEPT !.end = pos],
           [Area(pos, pos + (a.end - pos), a.flags)
               EXCEPT !.frames = {k \in a.frames : k >= pos}]>>
    ELSE <<>>

\* split(pos): <<left, right>>, or <<>> for None (the area is unchanged).
split(a, pos) ==
    IF a.start < pos /\ pos < a.end
    THEN <<[a EXCEPT !.end = pos, !.frames = {k \in @ : k < pos}],
           [Area(pos, pos + (a.end - pos), a.flags)
               EXCEPT !.frames = {k \in a.frames : k >= pos}]>>
    ELSE <<>>

\* ------------------------------------------------------------- MemorySet
NoArea == Area(0, 0, None)
Ctx(as, p) ==
    [areas |-> as, pt |-> p, calls |-> <<>>, ret |-> "Run", area |-> NoArea,
     grant |-> "none", got |-> {}]
\* The same with a backend that answers map as grant tells.
CtxGrant(as, p, grant) == [Ctx(as, p) EXCEPT !.grant = grant]
WithArea(c, a) == [c EXCEPT !.area = a]
Done(c, r) == [c EXCEPT !.ret = r, !.area = NoArea]

\* A variant of overlaps that looks only at the first area starting at or
\* after the range's start.
overlaps_after_only(as, range) ==
    LET a == FirstAtOrAbove(as, range.start)
    IN  a # -1 /\ range_overlaps(va_range(as[a]), range)

overlaps(as, range) ==
    LET b == LastBelow(as, range.start)
        a == FirstAtOrAbove(as, range.start)
    IN  \/ (b # -1 /\ range_overlaps(va_range(as[b]), range))
        \/ (a # -1 /\ range_overlaps(va_range(as[a]), range))

\* find(addr): the key of the area found, or -1 for None.
find(as, addr) ==
    LET k == LastAtOrBelow(as, addr) IN
    IF k # -1 /\ range_contains(va_range(as[k]), addr) THEN k ELSE -1

\* find_free_area: the loop over areas.range(last_end..), whose keys are
\* fixed when the loop starts; the result is {x} for Some(x), {} for None.
RECURSIVE find_free_iter(_, _, _, _, _)
find_free_iter(as, keys, last_end, sz, limit) ==
    LET end == checked_add(last_end, sz) IN
    IF keys = {}
    THEN IF end # -1 /\ end <= limit.end THEN {last_end} ELSE {}
    ELSE LET addr == Min(keys) IN
         IF end # -1 /\ end <= addr THEN {last_end}
         ELSE find_free_iter(as, keys \ {addr}, as[addr].end, sz, limit)

find_free_area(as, hint, sz, limit) ==
    LET from == Max({hint, limit.start})
        b == LastBelow(as, from)
        last_end == IF b # -1 THEN Max({from, as[b].end}) ELSE from
    IN  find_free_iter(as, {k \in DOMAIN as : k >= last_end}, last_end, sz, limit)

\* A variant of the first phase of unmap that drops every area starting at
\* or after the start of the range, without looking at its end.
RECURSIVE unmap_contained_from_start(_, _, _, _)
unmap_contained_from_start(c, keys, range, fails) ==
    IF keys = {} \/ c.ret # "Run" THEN c
    ELSE LET k == Min(keys)
             a == c.areas[k]
         IN  IF a.start >= range.start
             THEN LET r == unmap_area(WithArea(c, a), fails) IN
                  IF r.ret # "Run"
                  THEN [r EXCEPT !.ret = "Panic"]
                  ELSE unmap_contained_from_start([r EXCEPT !.areas = Remove(@, k)],
                                                  keys \ {k}, range, fails)
             ELSE unmap_contained_from_start(c, keys \ {k}, range, fails)

\* unmap, first phase: retain() visits the areas in key order and unmaps
\* and drops those contained in the range; unwrap() panics on a failure.
RECURSIVE unmap_contained(_, _, _, _)
unmap_contained(c, keys, range, fails) ==
    IF keys = {} \/ c.ret # "Run" THEN c
    ELSE LET k == Min(keys)
             a == c.areas[k]
         IN  IF contained_in(va_range(a), range)
             THEN LET r == unmap_area(WithArea(c, a), fails) IN
                  IF r.ret # "Run"
                  THEN [r EXCEPT !.ret = "Panic"]
                  ELSE unmap_contained([r EXCEPT !.areas = Remove(@, k)],
                                       keys \ {k}, range, fails)
             ELSE unmap_contained(c, keys \ {k}, range, fails)

\* unmap, second phase: the area that intersects the left boundary.
unmap_before(c, start, end, fails) ==
    LET before_start == LastBelow(c.areas, start) IN
    IF before_start = -1 THEN c
    ELSE LET before == c.areas[before_start]
             before_end == before.end
         IN  IF ~(before_end > start) THEN c
             ELSE IF before_end <= end
             THEN LET r == shrink_right(WithArea(c, before),
                                        sub_addr(start, before_start), fails)
                  IN  [r EXCEPT !.areas[before_start] = r.area]
             ELSE LET sp == split(before, end) IN
                  IF sp = <<>> THEN [c EXCEPT !.ret = "Panic"]
                  ELSE LET r == shrink_right(WithArea(c, sp[1]),
                                             sub_addr(start, before_start), fails)
                           kept == [r EXCEPT !.areas[before_start] = r.area]
                       IN  IF r.ret # "Run" THEN kept
                           ELSE IF sp[2].start # end
                           THEN [kept EXCEPT !.ret = "Panic"]
                           ELSE [kept EXCEPT !.areas = Put(@, end, sp[2])]

\* A variant of the third phase of unmap that shrinks the boundary area but
\* does not put it back under its new start.
unmap_after_no_reinsert(c, start, end, fails) ==
    LET after_start == FirstAtOrAbove(c.areas, start) IN
    IF after_start = -1 THEN c
    ELSE LET after == c.areas[after_start] IN
         IF ~(after_start < end) THEN c
         ELSE shrink_left(WithArea([c EXCEPT !.areas = Remove(@, after_start)], after),
                          sub_addr(after.end, end), fails)

\* unmap, third phase: the area that intersects the right boundary.
unmap_after(c, start, end, fails) ==
    LET after_start == FirstAtOrAbove(c.areas, start) IN
    IF after_start = -1 THEN c
    ELSE LET after == c.areas[after_start]
             after_end == after.end
         IN  IF ~(after_start < end) THEN c
             ELSE LET removed == [c EXCEPT !.areas = Remove(@, after_start)]
                      r == shrink_left(WithArea(removed, after),
                                       sub_addr(after_end, end), fails)
                  IN  IF r.ret # "Run" THEN r
                      ELSE IF r.area.start # end
                      THEN [r EXCEPT !.ret = "Panic"]
                      ELSE [r EXCEPT !.areas = Put(@, end, r.area)]

\* unmap as a step of an operation: ret stays "Run" when it returns Ok.
unmap_run(c, start, sz, fails) ==
    LET end == checked_add(start, sz)
        range == Range(start, end)
    IN  IF end = -1 THEN [c EXCEPT !.ret = "InvalidParam"]
        ELSE IF range_is_empty(range) THEN c
        ELSE LET p1 == unmap_contained(c, DOMAIN c.areas, range, fails)
                 p2 == IF p1.ret # "Run" THEN p1
                       ELSE unmap_before(p1, start, end, fails)
             IN  IF p2.ret # "Run" THEN p2
                 ELSE unmap_after(p2, start, end, fails)

Finish(c) == IF c.ret = "Run" THEN Done(c, "Ok") ELSE Done(c, c.ret)

unmap(c, start, sz, fails) == Finish(unmap_run(c, start, sz, fails))

insert(c, area, unmap_overlap) ==
    IF range_is_empty(va_range(area)) THEN Done(c, "InvalidParam")
    ELSE IF overlaps(c.areas, va_range(area)) /\ ~unmap_overlap
    THEN Done(c, "AlreadyExists")
    ELSE IF area.start \in DOMAIN c.areas
    THEN Done([c EXCEPT !.areas = Put(@, area.start, area)], "Panic")
    ELSE Done([c EXCEPT !.areas = Put(@, area.start, area)], "Ok")

delete(c, vaddr) ==
    Done([c EXCEPT !.areas = Remove(@, vaddr)], "Ok")

\* A variant of map that inserts the area before it maps it.
map_inserts_first(c, area, unmap_overlap, overwrite_flags, fails) ==
    IF range_is_empty(va_range(area)) THEN Done(c, "InvalidParam")
    ELSE LET u == IF overlaps(c.areas, va_range(area))
                  THEN IF unmap_overlap
                       THEN unmap_run(c, area.start, size(area), fails)
                       ELSE [c EXCEPT !.ret = "AlreadyExists"]
                  ELSE c
         IN  IF u.ret # "Run" THEN Finish(u)
             ELSE IF area.start \in DOMAIN u.areas
             THEN Done([u EXCEPT !.areas = Put(@, area.start, area)], "Panic")
             ELSE Finish(map_area(WithArea([u EXCEPT !.areas = Put(@, area.start, area)],
                                           area),
                                  overwrite_flags, fails))

map(c, area, unmap_overlap, overwrite_flags, fails) ==
    IF range_is_empty(va_range(area)) THEN Done(c, "InvalidParam")
    ELSE LET u == IF overlaps(c.areas, va_range(area))
                  THEN IF unmap_overlap
                       THEN unmap_run(c, area.start, size(area), fails)
                       ELSE [c EXCEPT !.ret = "AlreadyExists"]
                  ELSE c
         IN  IF u.ret # "Run" THEN Finish(u)
             ELSE LET m == map_area(WithArea(u, area), overwrite_flags, fails) IN
                  IF m.ret # "Run" THEN Finish(m)
                  ELSE IF area.start \in DOMAIN m.areas
                  THEN Done([m EXCEPT !.areas = Put(@, area.start, m.area)], "Panic")
                  ELSE Done([m EXCEPT !.areas = Put(@, area.start, m.area)], "Ok")

adjust_area(c, area_addr, start, end, fails) ==
    IF area_addr \notin DOMAIN c.areas THEN Done(c, "Panic")
    ELSE IF ~is_aligned_4k(start) \/ ~is_aligned_4k(end) THEN Done(c, "Panic")
    ELSE IF start >= end THEN Done(c, "InvalidParam")
    ELSE LET area == c.areas[area_addr]
             current_start == area.start
             current_end == area.end
             c0 == WithArea(c, area)
             l == IF start # current_start
                  THEN IF start < current_start
                       THEN extend_left(c0, sub_addr(current_end, start), fails)
                       ELSE shrink_left(c0, sub_addr(current_end, start), fails)
                  ELSE c0
             r == IF l.ret # "Run" THEN l
                  ELSE IF end # current_end
                  THEN IF end > current_end
                       THEN extend_right(l, sub_addr(end, current_start), fails)
                       ELSE shrink_right(l, sub_addr(end, current_start), fails)
                  ELSE l
         IN  Finish([r EXCEPT !.areas[area_addr] = r.area])

RECURSIVE clear_iter(_, _, _)
clear_iter(c, keys, fails) ==
    IF keys = {} \/ c.ret # "Run" THEN c
    ELSE LET k == Min(keys)
             r == unmap_area(WithArea(c, c.areas[k]), fails)
         IN  clear_iter([r EXCEPT !.areas[k] = r.area], keys \ {k}, fails)

clear(c, fails) ==
    LET r == clear_iter(c, DOMAIN c.areas, fails) IN
    IF r.ret # "Run" THEN Finish(r)
    ELSE Done([r EXCEPT !.areas = EmptyMap], "Ok")

\* MemorySet::insert_frame (RAII build): the area is looked up as find does
\* and the key is added to its frame table.  debug_assert!(is_aligned_4k)
\* panics in a build with debug assertions and is absent in one without.
insert_frame(c, vaddr, debug_assertions) ==
    LET k == find(c.areas, vaddr) IN
    IF k = -1 THEN Done(c, "Ok")
    ELSE IF debug_assertions /\ ~is_aligned_4k(vaddr) THEN Done(c, "Panic")
    ELSE Done([c EXCEPT !.areas[k].frames = @ \cup {vaddr}], "Ok")

\* One iteration of the loop of protect over the area under key area_start.
\* p is [c, to_insert, brk]: the context, the staged (key, area) pairs and
\* whether the loop has left through break.
protect_one(p, area_start, start, end, update_flags, fails) ==
    LET c == p.c
        area == c.areas[area_start]
        area_end == area.end
        new_flags == update_flags[area.flags]
    IN  IF new_flags = None THEN p
        ELSE IF area_start >= end THEN [p EXCEPT !.brk = TRUE]
        ELSE IF area_end <= start THEN p
        ELSE IF area_start >= start /\ area_end <= end
        THEN LET b == protect_area(WithArea(c, area), new_flags, fails) IN
             [p EXCEPT !.c = [b EXCEPT !.areas[area_start].flags = new_flags]]
        ELSE IF area_start < start /\ area_end > end
        THEN LET s1 == split(area, end) IN
             IF s1 = <<>> THEN [p EXCEPT !.c.ret = "Panic"]
             ELSE LET s2 == split(s1[1], start) IN
                  IF s2 = <<>>
                  THEN [p EXCEPT !.c.ret = "Panic", !.c.areas[area_start] = s1[1]]
                  ELSE LET b == protect_area(WithArea(c, s2[2]), new_flags, fails)
                           middle_part == [s2[2] EXCEPT !.flags = new_flags]
                       IN  [p EXCEPT !.c = [b EXCEPT !.areas[area_start] = s2[1]],
                                     !.to_insert = @ \o <<<<s1[2].start, s1[2]>>,
                                                          <<middle_part.start, middle_part>>>>]
        ELSE IF area_end > end
        THEN LET s1 == split(area, end) IN
             IF s1 = <<>> THEN [p EXCEPT !.c.ret = "Panic"]
             ELSE LET b == protect_area(WithArea(c, s1[1]), new_flags, fails) IN
                  [p EXCEPT !.c = [b EXCEPT !.areas[area_start] =
                                            [s1[1] EXCEPT !.flags = new_flags]],
                            !.to_insert = Append(@, <<s1[2].start, s1[2]>>)]
        ELSE LET s1 == split(area, start) IN
             IF s1 = <<>> THEN [p EXCEPT !.c.ret = "Panic"]
             ELSE LET b == protect_area(WithArea(c, s1[2]), new_flags, fails)
                      right_part == [s1[2] EXCEPT !.flags = new_flags]
                  IN  [p EXCEPT !.c = [b EXCEPT !.areas[area_start] = s1[1]],
                                !.to_insert = Append(@, <<right_part.start, right_part>>)]

RECURSIVE protect_iter(_, _, _, _, _, _)
protect_iter(p, keys, start, end, update_flags, fails) ==
    IF keys = {} \/ p.brk \/ p.c.ret # "Run" THEN p
    ELSE LET k == Min(keys) IN
         protect_iter(protect_one(p, k, start, end, update_flags, fails),
                      keys \ {k}, start, end, update_flags, fails)

\* self.areas.extend(to_insert): the pairs are inserted in order.
RECURSIVE extend(_, _)
extend(m, pairs) ==
    IF pairs = <<>> THEN m
    ELSE extend(Put(m, Head(pairs)[1], Head(pairs)[2]), Tail(pairs))

\* A variant of protect that computes the end of the range with a wrapping
\* addition.
protect_wrapping(c, start, sz, update_flags, fails) ==
    LET end == wrapping_add(start, sz)
        p == protect_iter([c |-> c, to_insert |-> <<>>, brk |-> FALSE],
                          DOMAIN c.areas, start, end, update_flags, fails)
    IN  IF p.c.ret # "Run" THEN Finish(p.c)
        ELSE Done([p.c EXCEPT !.areas = extend(@, p.to_insert)], "Ok")

protect(c, start, sz, update_flags, fails) ==
    LET end == checked_add(start, sz) IN
    IF end = -1 THEN Done(c, "InvalidParam")
    ELSE LET p == protect_iter([c |-> c, to_insert |-> <<>>, brk |-> FALSE],
                               DOMAIN c.areas, start, end, update_flags, fails)
         IN  IF p.c.ret # "Run" THEN Finish(p.c)
             ELSE Done([p.c EXCEPT !.areas = extend(@, p.to_insert)], "Ok")

\* ---------------------------------------------------------------- inputs
\* Callers pass page-aligned ranges inside the address space; a size of 0
\* is passed too.
Sizes == {n * PAGE_SIZE_4K : n \in 0..MaxPage}
InputRanges == {t \in Addrs \X Sizes : t[1] + t[2] \in Addrs}
\* unmap and protect are also called with a size that takes start + size
\* past the last address, by one and by far.
OverflowRanges ==
    {<<PAGE_SIZE_4K, UsizeMax>>,
     <<2 * PAGE_SIZE_4K, UsizeMax - 2 * PAGE_SIZE_4K + 1>>}
RangeArgs == InputRanges \cup OverflowRanges
InputAreas == {Area(t[1], t[1] + t[2], f) : t \in InputRanges, f \in Flags}
FailSets == SUBSET (1..MaxCalls)
UpdateFlags == [Flags -> Flags \cup {None}]
OverwriteFlags == {None, NumFlags}
\* adjust_area is called with the key of a stored area or with the last
\* address, and also with a bound that is not 4K-aligned.
Unaligned == PAGE_SIZE_4K \div 2
AdjustAddrs == Addrs \cup {Unaligned}
AdjustKeys(as) == DOMAIN as \cup {MaxPage * PAGE_SIZE_4K}
\* find is asked about page addresses and about addresses inside a page.
QueryAddrs == Addrs \cup {a + Unaligned : a \in Addrs}
\* find_free_area is asked for no, one or two pages and for the largest
\* size, inside the whole address space or inside a part of it.
FreeSizes == {0, PAGE_SIZE_4K, 2 * PAGE_SIZE_4K, UsizeMax}
Limits == {Range(0, MaxPage * PAGE_SIZE_4K), Range(0, 2 * PAGE_SIZE_4K),
           Range(PAGE_SIZE_4K, 3 * PAGE_SIZE_4K)}

\* ----------------------------------------------------------- the machine
\* A run is any sequence of public operations on one MemorySet and one page
\* table.  The last operation of a run is the recorded one: op, ret, calls,
\* pre and prePt hold its arguments, its result, its backend calls and the
\* set and page table it started from.  The operations before it leave no
\* record (op.name = "none"); an operation that panics ends the program, so
\* it is always the last one.
NoOp == [name |-> "none"]

Init ==
    /\ areas = EmptyMap
    /\ pt = {}
    /\ op = NoOp
    /\ ret = "Ok"
    /\ val = {}
    /\ calls = <<>>
    /\ pre = EmptyMap
    /\ prePt = {}
    /\ nops = 0

\* No operation follows the recorded one.
Running == op = NoOp /\ nops < MaxOps

\* The runs of the RAII build are shorter.
RunningRAII == nops < MaxOpsRAII

\* fails names only calls the operation made.
FailsUsed(c, fails) == \A n \in fails : n <= Len(c.calls)

\* The step of one operation: its result c becomes the state, and the
\* operation is recorded when it is the last of the run.
Commit(o, c, fails, last) ==
    /\ last \/ nops + 1 < MaxOps
    /\ nops' = nops + 1
    /\ FailsUsed(c, fails)
    /\ areas' = c.areas
    /\ pt' = c.pt
    /\ val' = {}
    /\ IF last
       THEN /\ op' = o
            /\ ret' = c.ret
            /\ calls' = c.calls
            /\ pre' = areas
            /\ prePt' = pt
       ELSE /\ c.ret # "Panic"
            /\ op' = NoOp
            /\ ret' = "Ok"
            /\ calls' = <<>>
            /\ pre' = EmptyMap
            /\ prePt' = {}

\* The operation is the last of the run or another one follows it.
CommitAny(o, c, fails) ==
    \E r \in {c}, last \in BOOLEAN : Commit(o, r, fails, last)

\* Some stored area overlaps the range (the whole map is looked at).
AnyOverlap(as, range) ==
    \E k \in DOMAIN as : range_overlaps(va_range(as[k]), range)

\* The documented duties of the callers: insert with unmap_overlap = true
\* is called once the range has been unmapped, and adjust_area is not called
\* with a range that collides with another area.
InsertDuty(area, unmap_overlap) ==
    unmap_overlap => ~AnyOverlap(areas, va_range(area))
AdjustDuty(area_addr, start, end) ==
    area_addr \in DOMAIN areas =>
        ~AnyOverlap(Remove(areas, area_addr), Range(start, end))

InsertOp(duty) ==
    /\ Running
    /\ \E area \in InputAreas, unmap_overlap \in BOOLEAN :
        /\ duty => InsertDuty(area, unmap_overlap)
        /\ CommitAny([name |-> "insert", area |-> area, unmap_overlap |-> unmap_overlap],
                  insert(Ctx(areas, pt), area, unmap_overlap), {})

Insert == InsertOp(TRUE)
InsertAny == InsertOp(FALSE)

Delete ==
    /\ Running
    /\ \E vaddr \in Addrs :
        CommitAny([name |-> "delete", vaddr |-> vaddr],
               delete(Ctx(areas, pt), vaddr), {})

MapOp(grants) ==
    /\ Running
    /\ \E area \in InputAreas, unmap_overlap \in BOOLEAN,
       overwrite_flags \in OverwriteFlags, fails \in FailSets,
       grant \in grants :
        CommitAny([name |-> "map", area |-> area, unmap_overlap |-> unmap_overlap,
                overwrite_flags |-> overwrite_flags],
               map(CtxGrant(areas, pt, grant), area, unmap_overlap, overwrite_flags,
                   fails),
               fails)

Map == MapOp({"none"})
MapRAII == RunningRAII /\ MapOp(Grants)

Unmap ==
    /\ Running
    /\ \E r \in RangeArgs, fails \in FailSets :
        CommitAny([name |-> "unmap", start |-> r[1], size |-> r[2]],
               unmap(Ctx(areas, pt), r[1], r[2], fails), fails)

AdjustAreaOp(duty, grants) ==
    /\ Running
    /\ \E area_addr \in AdjustKeys(areas), start \in AdjustAddrs, end \in AdjustAddrs,
       fails \in FailSets, grant \in grants :
        /\ duty => AdjustDuty(area_addr, start, end)
        /\ CommitAny([name |-> "adjust_area", area_addr |-> area_addr, start |-> start,
                   end |-> end],
                  adjust_area(CtxGrant(areas, pt, grant), area_addr, start, end, fails),
                  fails)

AdjustArea == AdjustAreaOp(TRUE, {"none"})
AdjustAreaAny == AdjustAreaOp(FALSE, {"none"})
AdjustAreaRAII == RunningRAII /\ AdjustAreaOp(TRUE, Grants)

InsertFrame ==
    /\ RunningRAII
    /\ Running
    /\ \E vaddr \in QueryAddrs, debug_assertions \in BOOLEAN :
        CommitAny([name |-> "insert_frame", vaddr |-> vaddr],
               insert_frame(Ctx(areas, pt), vaddr, debug_assertions), {})

Clear ==
    /\ Running
    /\ \E fails \in FailSets :
        CommitAny([name |-> "clear"], clear(Ctx(areas, pt), fails), fails)

Protect ==
    /\ Running
    /\ \E r \in RangeArgs, update_flags \in UpdateFlags,
       fails \in FailSets :
        CommitAny([name |-> "protect", start |-> r[1], size |-> r[2],
                update_flags |-> update_flags],
               protect(Ctx(areas, pt), r[1], r[2], update_flags, fails), fails)

\* A successful map followed by unmap of the mapped range, recorded as one
\* operation: pre is the set before the map, ret and calls are those of the
\* unmap.
MapThenUnmap ==
    /\ Running
    /\ \E area \in InputAreas, unmap_overlap \in BOOLEAN,
       overwrite_flags \in OverwriteFlags :
        \E m \in {map(Ctx(areas, pt), area, unmap_overlap, overwrite_flags, {})},
           fails \in FailSets :
        /\ m.ret = "Ok"
        /\ Commit([name |-> "map_unmap", area |-> area, unmap_overlap |-> unmap_overlap,
                   overwrite_flags |-> overwrite_flags],
                  unmap(Ctx(m.areas, m.pt), area.start, size(area), fails),
                  fails, TRUE)

\* A query is the recorded operation of a run; it leaves the set and the
\* page table alone and val holds what it returned.
Observe(o, v) ==
    /\ op' = o
    /\ val' = v
    /\ ret' = "Ok"
    /\ calls' = <<>>
    /\ pre' = areas
    /\ prePt' = pt
    /\ nops' = nops + 1
    /\ UNCHANGED <<areas, pt>>

Find ==
    /\ Running
    /\ \E addr \in QueryAddrs :
        LET k == find(areas, addr) IN
        Observe([name |-> "find", addr |-> addr],
                IF k = -1 THEN {} ELSE {areas[k]})

Overlaps ==
    /\ Running
    /\ \E r \in InputRanges :
        Observe([name |-> "overlaps", range |-> Range(r[1], r[1] + r[2])],
                {[overlaps |-> overlaps(areas, Range(r[1], r[1] + r[2]))]})

FindFreeArea ==
    /\ Running
    /\ \E hint \in Addrs, sz \in FreeSizes, limit \in Limits :
        Observe([name |-> "find_free_area", hint |-> hint, size |-> sz, limit |-> limit],
                {[addr |-> x] : x \in find_free_area(areas, hint, sz, limit)})

\* The runs in which the callers keep their documented duties.
Next ==
    \/ Insert \/ Delete \/ Map \/ Unmap \/ AdjustArea \/ Clear \/ Protect
    \/ Find \/ Overlaps \/ FindFreeArea \/ MapThenUnmap

Spec == Init /\ [][Next]_vars

\* The runs of the build with the RAII feature: the backend's map returns
\* frames and frames are inserted by hand.
UnmapRAII == RunningRAII /\ Unmap
ProtectRAII == RunningRAII /\ Protect
ClearRAII == RunningRAII /\ Clear

NextRAII ==
    \/ MapRAII \/ UnmapRAII \/ ProtectRAII \/ AdjustAreaRAII \/ ClearRAII
    \/ InsertFrame

SpecRAII == Init /\ [][NextRAII]_vars

\* The runs in which they need not.
NextAny == InsertAny \/ Delete \/ Map \/ Unmap \/ AdjustAreaAny \/ Clear \/ Protect

SpecAny == Init /\ [][NextAny]_vars

\* ------------------------------------------------ area-level operations
\* The runs in which the operations of MemoryArea are called on an area of
\* the set through a mutable reference (find_mut): an area is built by
\* MemoryArea::new with a frame table and mapped into the empty set, and
\* shrink_*, extend_* and split then act on it in place.
MaxOpsArea == 3
RunningArea == nops < MaxOpsArea

\* MemoryArea::new (the range is inside the address space).
new(start, sz, frame_alloced, flags) ==
    [Area(start, start + sz, flags) EXCEPT !.frames = frame_alloced]

\* The area under key k is the one the operation runs on; what the
\* operation leaves in c.area is the area stored afterwards.
OnArea(c, k) == WithArea(c, c.areas[k])
StoreArea(c, k) == Finish([c EXCEPT !.areas[k] = c.area])

\* One backend call at most is made by an area-level operation.
AreaFails == SUBSET {1}
\* extend_* is called with a size that keeps the area inside the address
\* space (adjust_area computes it from two addresses).
ExtendLeftSizes(a) == {n \in Sizes : a.end - n >= 0}
ExtendRightSizes(a) == {n \in Sizes : a.start + n <= MaxPage * PAGE_SIZE_4K}

NewArea ==
    /\ Running
    /\ RunningArea
    /\ areas = EmptyMap
    /\ \E r \in InputRanges, flags \in Flags, frame_alloced \in SUBSET Addrs,
          grant \in Grants :
        \E m \in {map(CtxGrant(areas, pt, grant),
                       new(r[1], r[2], frame_alloced, flags), FALSE, None, {})} :
            /\ m.ret = "Ok"
            /\ Commit([name |-> "new"], m, {}, FALSE)

ShrinkLeft ==
    /\ Running
    /\ RunningArea
    /\ \E k \in DOMAIN areas, new_size \in Sizes, fails \in AreaFails :
        CommitAny([name |-> "shrink_left", key |-> k, new_size |-> new_size],
                  StoreArea(shrink_left(OnArea(Ctx(areas, pt), k), new_size, fails), k),
                  fails)

ShrinkRight ==
    /\ Running
    /\ RunningArea
    /\ \E k \in DOMAIN areas, new_size \in Sizes, fails \in AreaFails :
        CommitAny([name |-> "shrink_right", key |-> k, new_size |-> new_size],
                  StoreArea(shrink_right(OnArea(Ctx(areas, pt), k), new_size, fails), k),
                  fails)

ExtendLeft ==
    /\ Running
    /\ RunningArea
    /\ \E k \in DOMAIN areas, fails \in AreaFails, grant \in Grants :
        \E new_size \in ExtendLeftSizes(areas[k]) :
        CommitAny([name |-> "extend_left", key |-> k, new_size |-> new_size],
                  StoreArea(extend_left(OnArea(CtxGrant(areas, pt, grant), k),
                                        new_size, fails), k),
                  fails)

ExtendRight ==
    /\ Running
    /\ RunningArea
    /\ \E k \in DOMAIN areas, fails \in AreaFails, grant \in Grants :
        \E new_size \in ExtendRightSizes(areas[k]) :
        CommitAny([name |-> "extend_right", key |-> k, new_size |-> new_size],
                  StoreArea(extend_right(OnArea(CtxGrant(areas, pt, grant), k),
                                         new_size, fails), k),
                  fails)

\* split is the recorded operation of a run: the left part stays in the
\* set and val holds the right part it returned ({} for None).
Split ==
    /\ Running
    /\ RunningArea
    /\ \E k \in DOMAIN areas, pos \in QueryAddrs :
        \E s \in {split(areas[k], pos)} :
            /\ op' = [name |-> "split", key |-> k, pos |-> pos]
            /\ areas' = IF s = <<>> THEN areas ELSE [areas EXCEPT ![k] = s[1]]
            /\ val' = IF s = <<>> THEN {} ELSE {s[2]}
            /\ ret' = "Ok"
            /\ calls' = <<>>
            /\ pre' = areas
            /\ prePt' = pt
            /\ nops' = nops + 1
            /\ UNCHANGED pt

NextArea ==
    \/ NewArea \/ ShrinkLeft \/ ShrinkRight \/ ExtendLeft \/ ExtendRight
    \/ Split

SpecArea == Init /\ [][NextArea]_vars

\* ------------------------------------------------------- eager backend
\* The runs with a backend that never fails, in which every call returns
\* Ok: map, unmap, protect, adjust_area (not into a neighbour) and clear,
\* from the empty set.
CommitOk(o, c) ==
    \E r \in {c}, last \in BOOLEAN : r.ret = "Ok" /\ Commit(o, r, {}, last)

MapEager ==
    /\ Running
    /\ \E area \in InputAreas, unmap_overlap \in BOOLEAN,
          overwrite_flags \in OverwriteFlags :
        CommitOk([name |-> "map", area |-> area, unmap_overlap |-> unmap_overlap,
                  overwrite_flags |-> overwrite_flags],
                 map(Ctx(areas, pt), area, unmap_overlap, overwrite_flags, {}))

UnmapEager ==
    /\ Running
    /\ \E r \in RangeArgs :
        CommitOk([name |-> "unmap", start |-> r[1], size |-> r[2]],
                 unmap(Ctx(areas, pt), r[1], r[2], {}))

ProtectEager ==
    /\ Running
    /\ \E r \in RangeArgs, update_flags \in UpdateFlags :
        CommitOk([name |-> "protect", start |-> r[1], size |-> r[2],
                  update_flags |-> update_flags],
                 protect(Ctx(areas, pt), r[1], r[2], update_flags, {}))

AdjustAreaEager ==
    /\ Running
    /\ \E area_addr \in AdjustKeys(areas), start \in AdjustAddrs, end \in AdjustAddrs :
        /\ AdjustDuty(area_addr, start, end)
        /\ CommitOk([name |-> "adjust_area", area_addr |-> area_addr,
                     start |-> start, end |-> end],
                    adjust_area(Ctx(areas, pt), area_addr, start, end, {}))

ClearEager ==
    /\ Running
    /\ CommitOk([name |-> "clear"], clear(Ctx(areas, pt), {}))

NextEager ==
    \/ MapEager \/ UnmapEager \/ ProtectEager \/ AdjustAreaEager \/ ClearEager

SpecEager == Init /\ [][NextEager]_vars

TypeOK ==
    /\ ret \in Results
    /\ \A k \in DOMAIN areas : areas[k].flags \in Flags

\* ================================================================ claims
\* What the stored areas cover, page by page.
Covered(as, a) == \E k \in DOMAIN as : range_contains(va_range(as[k]), a)
FlagsAt(as, a) == {as[k].flags : k \in {x \in DOMAIN as : range_contains(va_range(as[x]), a)}}
Values(as) == {as[k] : k \in DOMAIN as}
InRange(a, start, end) == start <= a /\ a < end

SortedByStart(as) ==
    \A k1, k2 \in DOMAIN as : k1 < k2 => as[k1].start < as[k2].start
NonOverlapping(as) ==
    \A k1, k2 \in DOMAIN as :
        k1 # k2 => ~range_overlaps(va_range(as[k1]), va_range(as[k2]))
NonEmpty(as) == \A k \in DOMAIN as : as[k].start < as[k].end
KeyedByStart(as) == \A k \in DOMAIN as : as[k].start = k
SetInvariants(as) == KeyedByStart(as) /\ NonOverlapping(as) /\ NonEmpty(as)

Returned == op # NoOp /\ ret # "Panic"
SomeCallFailed(kind) ==
    \E i \in 1..Len(calls) : calls[i].kind = kind /\ ~calls[i].ok

\* C1: after any sequence of public mutations the stored areas are sorted
\* by start (in the order of the map), pairwise non-overlapping and all
\* non-empty.
C1_SortedDisjointNonEmpty ==
    ret # "Panic" =>
        SortedByStart(areas) /\ NonOverlapping(areas) /\ NonEmpty(areas)

\* C2: in every reachable state each key of the map equals the start of the
\* area stored under it, also after adjust_area has moved a left boundary.
C2_KeyEqualsStart ==
    ret # "Panic" => KeyedByStart(areas)

\* C3: when unmap(start, size) returns Ok, no stored area covers an address
\* of [start, end), every address outside keeps exactly the flags it had
\* (covered stays covered, uncovered stays uncovered), and the stored areas
\* are the parts of the old areas left and right of the range: contained
\* areas are gone, boundary areas are shrunk, a containing area is split.
Remnants(as, start, end) ==
    {Area(a.start, IF a.end < start THEN a.end ELSE start, a.flags) :
        a \in {x \in Values(as) : x.start < start}}
    \cup
    {Area(IF a.start > end THEN a.start ELSE end, a.end, a.flags) :
        a \in {x \in Values(as) : x.end > end}}

UnmapPost(start, end) ==
    /\ \A a \in Addrs : InRange(a, start, end) => ~Covered(areas, a)
    /\ \A a \in Addrs : ~InRange(a, start, end) => FlagsAt(areas, a) = FlagsAt(pre, a)
    /\ Values(areas) = Remnants(pre, start, end)

C3_UnmapOk ==
    (op.name = "unmap" /\ ret = "Ok" /\ op.size > 0) =>
        UnmapPost(op.start, op.start + op.size)

\* C4: when a backend unmap call fails during unmap, every page that an
\* area of the set covered before the call and that is still mapped in the
\* page table is still covered by an area of the set afterwards.
C4_FailedUnmapKeepsMappedAreas ==
    (op.name = "unmap" /\ Returned /\ SomeCallFailed("unmap")) =>
        \A a \in Addrs : (Covered(pre, a) /\ a \in pt) => Covered(areas, a)

\* C5: unmap returns Err(BadState) whenever a backend unmap call made on its
\* behalf reports failure, in each of its three phases.
C5_FailedUnmapIsBadState ==
    (op.name = "unmap" /\ SomeCallFailed("unmap")) => ret = "BadState"

\* C6: when protect(start, size, update_flags) returns Ok on non-overlapping,
\* non-empty areas with size > 0: the covered addresses are unchanged; a
\* covered address of [start, end) whose area had flags f with
\* update_flags(f) = Some(g) lies in an area with flags g; every other
\* covered address keeps its flags; and an area strictly containing
\* [start, end) whose flags change becomes left | middle | right, of which
\* only the middle has the new flags.
ProtectPost(start, end, update_flags) ==
    /\ \A a \in Addrs : Covered(areas, a) <=> Covered(pre, a)
    /\ \A a \in Addrs : \A f \in FlagsAt(pre, a) :
          IF InRange(a, start, end) /\ update_flags[f] # None
          THEN FlagsAt(areas, a) = {update_flags[f]}
          ELSE FlagsAt(areas, a) = {f}
    /\ \A x \in Values(pre) :
          (x.start < start /\ x.end > end /\ update_flags[x.flags] # None) =>
              {Area(x.start, start, x.flags),
               Area(start, end, update_flags[x.flags]),
               Area(end, x.end, x.flags)} \subseteq Values(areas)

C6_ProtectOk ==
    (/\ op.name = "protect" /\ ret = "Ok" /\ op.size > 0
     /\ NonOverlapping(pre) /\ NonEmpty(pre)) =>
        ProtectPost(op.start, op.start + op.size, op.update_flags)

\* C7: a backend protect call that reports failure is surfaced: protect
\* returns Err(BadState), and the area the call was made for does not take
\* the new flags.
C7_FailedProtectIsBadState ==
    (op.name = "protect" /\ Returned /\ SomeCallFailed("protect")) =>
        /\ ret = "BadState"
        /\ \A i \in 1..Len(calls) : ~calls[i].ok =>
              \A x \in Values(areas) :
                  (x.start = calls[i].start /\ size(x) = calls[i].size
                   /\ x.flags = calls[i].flags) =>
                      calls[i].flags \in FlagsAt(pre, x.start)

\* C8: when adjust_area(area_addr, new_start, new_end) returns Ok for an
\* existing area and 4K-aligned new_start < new_end, the range of the area
\* is exactly [new_start, new_end), whichever boundaries moved.
C8_AdjustReachesTarget ==
    (/\ op.name = "adjust_area" /\ ret = "Ok"
     /\ op.area_addr \in DOMAIN pre
     /\ is_aligned_4k(op.start) /\ is_aligned_4k(op.end) /\ op.start < op.end) =>
        /\ op.area_addr \in DOMAIN areas
        /\ va_range(areas[op.area_addr]) = Range(op.start, op.end)

\* C9: map(area, unmap_overlap = false) with an area that overlaps a stored
\* area returns Err(AlreadyExists), makes no backend call and leaves the set
\* unchanged.
C9_MapOverlapRejected ==
    (/\ op.name = "map" /\ ~op.unmap_overlap
     /\ ~range_is_empty(va_range(op.area))
     /\ AnyOverlap(pre, va_range(op.area))) =>
        ret = "AlreadyExists" /\ calls = <<>> /\ areas = pre /\ pt = prePt

\* C10: when map(area, unmap_overlap = true) returns Ok on a set that
\* satisfies the invariants, the set holds the new area, range and flags,
\* under its start; every other stored area is disjoint from it; and what
\* the old areas covered outside the new range is covered with the old flags.
C10_MapUnmapOverlap ==
    (/\ op.name = "map" /\ op.unmap_overlap /\ ret = "Ok"
     /\ SetInvariants(pre)) =>
        /\ op.area.start \in DOMAIN areas
        /\ areas[op.area.start] = op.area
        /\ \A k \in DOMAIN areas \ {op.area.start} :
              ~range_overlaps(va_range(areas[k]), va_range(op.area))
        /\ \A a \in Addrs :
              (Covered(pre, a) /\ ~range_contains(va_range(op.area), a)) =>
                  FlagsAt(areas, a) = FlagsAt(pre, a)

\* C10 witness: the new area cut a piece out of an area that had parts on
\* both sides of it.
C10_Witness ==
    /\ op.name = "map" /\ op.unmap_overlap /\ ret = "Ok"
    /\ SetInvariants(pre)
    /\ \E x \in Values(pre) : x.start < op.area.start /\ x.end > op.area.end
    /\ Cardinality(DOMAIN areas) >= 3

\* C11: in every state public operations reach, find(a) returns an area iff
\* some stored area contains a, and the area it returns is stored and
\* contains a.
C11_FindIffContained ==
    op.name = "find" =>
        /\ (val # {}) <=> Covered(areas, op.addr)
        /\ \A a \in val : a \in Values(areas) /\ range_contains(va_range(a), op.addr)

\* C12: on stored areas that are pairwise non-overlapping and keyed by their
\* start, overlaps(r) is true iff some stored area overlaps r.
C12_OverlapsIffAny ==
    (op.name = "overlaps" /\ NonOverlapping(areas) /\ KeyedByStart(areas)) =>
        val = {[overlaps |-> AnyOverlap(areas, op.range)]}

\* overlaps answered true for a range that only the area starting before it
\* overlaps, while the area starting at or after it does not.
C12_Witness ==
    /\ op.name = "overlaps" /\ NonOverlapping(areas) /\ KeyedByStart(areas)
    /\ val = {[overlaps |-> TRUE]}
    /\ Cardinality(DOMAIN areas) >= 2
    /\ LastBelow(areas, op.range.start) # -1
    /\ range_overlaps(va_range(areas[LastBelow(areas, op.range.start)]), op.range)
    /\ FirstAtOrAbove(areas, op.range.start) # -1
    /\ ~range_overlaps(va_range(areas[FirstAtOrAbove(areas, op.range.start)]), op.range)

\* find_free_area's arguments and what may be asked of an answer.
FreeFrom == Max({op.hint, op.limit.start})
Fits(as, x, sz) == ~AnyOverlap(as, Range(x, x + sz))
FitsIn(as, x, sz, limit) ==
    contained_in(Range(x, x + sz), limit) /\ Fits(as, x, sz)

\* C13: if find_free_area(hint, size, limit) returns Some(x), then
\* [x, x + size) lies inside limit and overlaps no stored area, also when
\* areas are stored at or beyond limit.end.
C13_FreeAreaInsideLimit ==
    op.name = "find_free_area" =>
        \A v \in val : FitsIn(areas, v.addr, op.size, op.limit)

\* C14: on non-overlapping areas find_free_area is a complete first-fit
\* search: None means no x >= max(hint, limit.start) has [x, x + size)
\* inside limit and free of areas, and Some(x) means no y with
\* max(hint, limit.start) <= y < x has [y, y + size) free of areas.
C14_FirstFit ==
    (op.name = "find_free_area" /\ NonOverlapping(areas)) =>
        /\ val = {} =>
              ~\E x \in QueryAddrs :
                  x >= FreeFrom /\ FitsIn(areas, x, op.size, op.limit)
        /\ \A v \in val :
              ~\E y \in QueryAddrs :
                  FreeFrom <= y /\ y < v.addr /\ Fits(areas, y, op.size)

\* C15: insert(area, unmap_overlap) never calls the backend; it returns
\* InvalidParam for an empty range and AlreadyExists for an overlapping area
\* when unmap_overlap is false, with the set unchanged in both cases;
\* otherwise it returns Ok and the area is stored under its start address.
C15_InsertResults ==
    op.name = "insert" =>
        /\ calls = <<>>
        /\ pt = prePt
        /\ IF range_is_empty(va_range(op.area))
           THEN ret = "InvalidParam" /\ areas = pre
           ELSE IF ~op.unmap_overlap /\ AnyOverlap(pre, va_range(op.area))
           THEN ret = "AlreadyExists" /\ areas = pre
           ELSE /\ ret = "Ok"
                /\ op.area.start \in DOMAIN areas
                /\ areas[op.area.start] = op.area

\* C16: for every reachable set and every area, a successful map(area, ...)
\* followed by unmap(area.start, area.size) leaves the stored areas (ranges
\* and flags) as they were before the map.
C16_MapUnmapRestores ==
    (op.name = "map_unmap" /\ ret = "Ok") => Values(areas) = Values(pre)

\* The same for a map whose range overlapped no stored area.
C16_MapUnmapRestoresFree ==
    (op.name = "map_unmap" /\ ret = "Ok" /\ ~AnyOverlap(pre, va_range(op.area)))
        => Values(areas) = Values(pre)

\* A map between two stored areas that touch the new one, and its unmap.
C16_Witness ==
    /\ op.name = "map_unmap" /\ ret = "Ok"
    /\ ~AnyOverlap(pre, va_range(op.area))
    /\ \E x, y \in Values(pre) : x.end = op.area.start /\ y.start = op.area.end
    /\ Len(calls) = 1

\* An update_flags that returns the flags it is given.
IdentityFlags == [f \in Flags |-> f]

\* C17: protect with the identity update_flags is a no-op on the set's
\* structure: the number of areas and each area's range and flags are the
\* same before and after the call.
C17_IdentityProtectNoOp ==
    (op.name = "protect" /\ op.update_flags = IdentityFlags /\ Returned)
        => /\ Cardinality(DOMAIN areas) = Cardinality(DOMAIN pre)
           /\ Values(areas) = Values(pre)

\* C18: clear calls unmap_area on the stored areas in ascending start order,
\* once per area, and the set is empty when it returns Ok; when a backend
\* unmap fails it returns BadState at the first failing area and makes no
\* backend call for the later ones.
C18_ClearInOrder ==
    op.name = "clear" =>
        /\ ret \in {"Ok", "BadState"}
        /\ \A i \in 1..Len(calls) :
              /\ calls[i].kind = "unmap"
              /\ \E a \in Values(pre) :
                    calls[i].start = a.start /\ calls[i].size = size(a)
              /\ \A j \in 1..Len(calls) : i < j => calls[i].start < calls[j].start
              /\ ~calls[i].ok => i = Len(calls)
        /\ ret = "Ok" => areas = EmptyMap /\ Len(calls) = Cardinality(DOMAIN pre)
        /\ ret = "BadState" <=> SomeCallFailed("unmap")

\* C19: in the RAII build, after any sequence of set-level map, unmap,
\* protect, adjust_area and insert_frame calls with a backend whose map
\* returns only 4K-aligned keys inside the requested sub-range, every key of
\* every stored area's frame table is 4K-aligned and lies in
\* [area.start, area.end).
C19_FrameKeysInArea ==
    ret # "Panic" =>
        \A a \in Values(areas) : \A k \in a.frames :
            is_aligned_4k(k) /\ range_contains(va_range(a), k)

\* C20: with a bounded address width, unmap(start, size) and
\* protect(start, size, ...) whose start + size overflows return
\* Err(InvalidParam) without calling the backend or changing the set, and
\* find_free_area never returns an address whose end (address + size)
\* overflows: an overflowing candidate end counts as not fitting.
C20_OverflowRejected ==
    /\ (op.name \in {"unmap", "protect"} /\ op.start + op.size > UsizeMax) =>
        /\ ret = "InvalidParam"
        /\ calls = <<>>
        /\ areas = pre
        /\ pt = prePt
    /\ op.name = "find_free_area" =>
        \A r \in val : r.addr + op.size <= UsizeMax

\* protect of a range whose end overflows to an address above a stored
\* area that lies after its start, under an update that changes the flags.
C20_Witness ==
    /\ op.name = "protect"
    /\ op.start + op.size > UsizeMax
    /\ ret = "InvalidParam"
    /\ \E a \in Values(areas) :
        /\ a.start >= op.start
        /\ op.update_flags[a.flags] \notin {None, a.flags}

\* C21: split(pos) with start < pos < end truncates the area to [start, pos)
\* and returns a right area [pos, end) with the same flags; the two frame
\* tables partition the original one (keys < pos stay, keys >= pos move,
\* none lost or duplicated), so the halves together cover the same addresses
\* with the same flags and frames as the area before; for pos <= start or
\* pos >= end it returns None and leaves the area unchanged.  Neither case
\* touches the page table.
C21_SplitPartitions ==
    op.name = "split" =>
        LET a == pre[op.key]
            left == areas[op.key]
        IN  /\ DOMAIN areas = DOMAIN pre
            /\ pt = prePt
            /\ IF a.start < op.pos /\ op.pos < a.end
               THEN /\ va_range(left) = Range(a.start, op.pos)
                    /\ left.flags = a.flags
                    /\ left.frames = {k \in a.frames : k < op.pos}
                    /\ \E right \in val :
                        /\ val = {right}
                        /\ va_range(right) = Range(op.pos, a.end)
                        /\ right.flags = a.flags
                        /\ right.frames = {k \in a.frames : k >= op.pos}
                        /\ left.frames \cup right.frames = a.frames
                        /\ left.frames \cap right.frames = {}
               ELSE val = {} /\ areas = pre

\* A split strictly inside an area whose frame table has keys on both
\* sides of the position.
C21_Witness ==
    /\ op.name = "split"
    /\ pre[op.key].start < op.pos /\ op.pos < pre[op.key].end
    /\ \E k1, k2 \in pre[op.key].frames : k1 < op.pos /\ op.pos <= k2
    /\ val # {}

IsShrink == op.name \in {"shrink_left", "shrink_right"}

C23_ShrinkFailureKeepsArea ==
    (IsShrink /\ SomeCallFailed("unmap")) =>
        /\ ret = "BadState"
        /\ Len(calls) = 1
        /\ areas = pre
        /\ pt = prePt

\* A failed shrink_left of an area with a frame in the part to cut off.
C23_Witness ==
    /\ op.name = "shrink_left" /\ SomeCallFailed("unmap")
    /\ ret = "BadState"
    /\ \E k \in areas[op.key].frames :
           areas[op.key].start <= k /\ k < areas[op.key].end - op.new_size

IsExtend == op.name \in {"extend_left", "extend_right"}

\* C24: extend_left(new_size) / extend_right(new_size) with new_size > size
\* backend-maps exactly the added prefix / suffix (new_size - size bytes
\* adjacent to the old range) with the area's stored flags and, on success,
\* grows the range to size new_size keeping the opposite endpoint fixed; on
\* backend map failure it returns Err(BadState).
C24_ExtendMapsAdded ==
    (IsExtend /\ op.new_size > size(pre[op.key])) =>
        LET a == pre[op.key]
            b == areas[op.key]
            added == op.new_size - size(a)
        IN  /\ Len(calls) = 1
            /\ calls[1].kind = "map"
            /\ calls[1].size = added
            /\ calls[1].start =
                   IF op.name = "extend_left" THEN a.start - added ELSE a.end
            /\ calls[1].flags = a.flags
            /\ IF calls[1].ok
               THEN /\ ret = "Ok"
                    /\ size(b) = op.new_size
                    /\ IF op.name = "extend_left"
                       THEN b.end = a.end ELSE b.start = a.start
                    /\ b.flags = a.flags
                    /\ pt = prePt \cup PagesOf(calls[1].start, added)
               ELSE ret = "BadState"

\* A successful extend_left by more than one page of an area that does not
\* start at its key any more.
C24_Witness ==
    /\ op.name = "extend_left" /\ ret = "Ok"
    /\ op.new_size > size(pre[op.key]) + PAGE_SIZE_4K
    /\ pre[op.key].start # op.key
    /\ areas[op.key].start < pre[op.key].start

\* C25: if the backend map call fails inside MemorySet::map, the call
\* returns Err(BadState) and the new area is not inserted; when the new area
\* overlapped nothing, the set is exactly as before the call.
C25_MapFailureNotInserted ==
    (op.name = "map" /\ SomeCallFailed("map")) =>
        /\ ret = "BadState"
        /\ ~(op.area.start \in DOMAIN areas /\ areas[op.area.start] = op.area)
        /\ ~AnyOverlap(pre, va_range(op.area)) => areas = pre

\* A failed map of an area that touches a stored area on each side and
\* overlaps neither.
C25_Witness ==
    /\ op.name = "map" /\ SomeCallFailed("map")
    /\ ret = "BadState"
    /\ ~AnyOverlap(pre, va_range(op.area))
    /\ \E x, y \in Values(pre) : x.end = op.area.start /\ y.start = op.area.end

\* C26: MemorySet::protect never aborts on its internal split calls: for
\* every start and every size >= 0 (size = 0 with start strictly inside an
\* area included) and every set of non-overlapping areas, each split
\* performed by protect yields a right part, so the unwraps at the split
\* sites never fail and no empty area is produced.
C26_ProtectSplitsSucceed ==
    (op.name = "protect" /\ NonOverlapping(pre) /\ NonEmpty(pre)) =>
        /\ ret # "Panic"
        /\ NonEmpty(areas)

\* The pages the stored areas cover.
PagesCovered(as) == {p \in Addrs : Covered(as, p)}

\* C27: with an eager backend that maps and unmaps every page of the
\* sub-range it is given and never fails, after any sequence of successful
\* set-level map, unmap, protect, adjust_area (never extending into a
\* neighbour) and clear calls starting from the empty set, the pages mapped
\* in the page table are exactly the pages covered by the stored areas.
C27_PageTableMatchesAreas == pt = PagesCovered(areas)
====
